---- MODULE Spec2Model ----
(***************************************************************************)
(* A model of bayesian_optimization.py: the RBF kernel, the GP posterior   *)
(* (fitted_gaus), the three acquisition functions and the three            *)
(* module-level optimization loops (EI, PI, UCB).                          *)
(*                                                                         *)
(* float64 values are fixed-point integers: the float v is the integer     *)
(* v * SC.  The IEEE specials nan, +inf and -inf are three integers        *)
(* outside the range the finite values use; the arithmetic operators       *)
(* below give them numpy's meaning (x/0, 0/0, sqrt of a negative, ...).    *)
(***************************************************************************)
EXTENDS Integers, Sequences, FiniteSets, TLC

VARIABLES
    kind,        \* which loop block runs: "EI" (251-292), "PI" (333-374), "UCB" (403-444)
    pc,          \* the statement the block executes next
    i,           \* the for-loop variable i
    X, Y,        \* the ObservationSet
    probas,      \* the acquisition scores over the grid xs
    new_x, new_y,
    snap,        \* history: <<X, Y>> as they were when the current iteration began
    calls,       \* history: the arguments of the sampling calls (line 278) of this block
    iter_calls,  \* history: objective_function evaluations since the iteration began
    reported,    \* what "The objective function is maximized at" printed
    fn,          \* SpecFn: the function applied ("none" before the call)
    args,        \* SpecFn: its arguments
    ret          \* SpecFn: what it returned or raised

vars == <<kind, pc, i, X, Y, probas, new_x, new_y, snap, calls, iter_calls,
          reported, fn, args, ret>>

loopVars == <<kind, pc, i, X, Y, probas, new_x, new_y, snap, calls, iter_calls,
              reported>>

fnVars == <<fn, args, ret>>

(***************************************************************************)
(* float64                                                                 *)
(***************************************************************************)
SC == 1000

NaN == 2147483647

PInf == 2000000000

NInf == -2000000000

IsNaN(v) == v = NaN

IsFinite(v) == v \notin {NaN, PInf, NInf}

Abs(v) == IF v < 0 THEN -v ELSE v

\* p / q rounded to the nearest integer (q # 0), as float64 rounds to nearest.
RDiv(p, q) ==
    LET s == IF (p < 0) = (q < 0) THEN 1 ELSE -1
    IN  s * ((2 * Abs(p) + Abs(q)) \div (2 * Abs(q)))

FNeg(a) == IF IsNaN(a) THEN NaN ELSE IF a = PInf THEN NInf ELSE IF a = NInf THEN PInf ELSE -a

FAdd(a, b) ==
    IF IsNaN(a) \/ IsNaN(b) THEN NaN
    ELSE IF ~IsFinite(a) /\ ~IsFinite(b) THEN (IF a = b THEN a ELSE NaN)
    ELSE IF ~IsFinite(a) THEN a
    ELSE IF ~IsFinite(b) THEN b
    ELSE a + b

FSub(a, b) == FAdd(a, FNeg(b))

FMul(a, b) ==
    IF IsNaN(a) \/ IsNaN(b) THEN NaN
    ELSE IF ~IsFinite(a) \/ ~IsFinite(b)
         THEN IF a = 0 \/ b = 0 THEN NaN
              ELSE IF (a < 0) = (b < 0) THEN PInf ELSE NInf
    ELSE RDiv(a * b, SC)

\* numpy's true division of float64 arrays: a zero divisor gives inf or nan
\* (with a RuntimeWarning), never an exception.  The zero divisors of this
\* program (sqrt(0), 2 * 0**2) are +0.0.
FDiv(a, b) ==
    IF IsNaN(a) \/ IsNaN(b) THEN NaN
    ELSE IF ~IsFinite(a) /\ ~IsFinite(b) THEN NaN
    ELSE IF ~IsFinite(a) THEN (IF b >= 0 THEN a ELSE FNeg(a))
    ELSE IF ~IsFinite(b) THEN 0
    ELSE IF b = 0 THEN (IF a = 0 THEN NaN ELSE IF a > 0 THEN PInf ELSE NInf)
    ELSE RDiv(a * SC, b)

RECURSIVE Newton(_, _)
Newton(n, x) ==
    LET y == (x + n \div x) \div 2
    IN  IF y >= x THEN x ELSE Newton(n, y)

\* floor(sqrt(n)) for n >= 0
ISqrt(n) == IF n = 0 THEN 0 ELSE Newton(n, n)

\* np.sqrt: nan for a negative argument (RuntimeWarning), no exception
np_sqrt(v) ==
    IF IsNaN(v) \/ v = NInf THEN NaN
    ELSE IF v = PInf THEN PInf
    ELSE IF v < 0 THEN NaN
    ELSE ISqrt(v * SC)

RECURSIVE Pow2(_)
Pow2(q) == IF q = 0 THEN 1 ELSE 2 * Pow2(q - 1)

\* exp(-t) for a finite t >= 0: t = q ln 2 + r, exp(-t) = 2^-q exp(-r),
\* exp(-r) by its Taylor series; exp(-0) is exactly 1.
ExpNeg(t) ==
    IF t > 20 * SC THEN 0
    ELSE LET q  == t \div 693
             r  == t - q * 693
             r2 == (r * r) \div SC
             r3 == (r2 * r) \div SC
             r4 == (r3 * r) \div SC
             r5 == (r4 * r) \div SC
             e  == SC - r + r2 \div 2 - r3 \div 6 + r4 \div 24 - r5 \div 120
         IN  RDiv(e, Pow2(q))

\* np.exp on the arguments this program gives it (never positive and finite)
np_exp(t) ==
    IF IsNaN(t) THEN NaN
    ELSE IF t = NInf THEN 0
    ELSE IF t = PInf THEN PInf
    ELSE IF t <= 0 THEN ExpNeg(-t)
    ELSE IF ExpNeg(t) = 0 THEN PInf ELSE RDiv(SC * SC, ExpNeg(t))

\* scipy.stats.norm.pdf: exp(-z^2/2) / sqrt(2 pi)
norm_pdf(z) ==
    IF IsNaN(z) THEN NaN
    ELSE IF ~IsFinite(z) \/ Abs(z) > 7 * SC THEN 0
    ELSE RDiv(399 * np_exp(-(RDiv(z * z, 2 * SC))), SC)

\* Phi(z) for a finite z >= 0 (Abramowitz and Stegun 26.2.17)
PhiPos(z) ==
    LET t  == RDiv(SC * SC, SC + RDiv(232 * z, SC))
        h5 == 1330
        h4 == RDiv(t * h5, SC) - 1821
        h3 == RDiv(t * h4, SC) + 1781
        h2 == RDiv(t * h3, SC) - 357
        h1 == RDiv(t * h2, SC) + 319
        p  == RDiv(t * h1, SC)
    IN  SC - RDiv(norm_pdf(z) * p, SC)

\* scipy.stats.norm.cdf
norm_cdf(z) ==
    IF IsNaN(z) THEN NaN
    ELSE IF z = NInf THEN 0
    ELSE IF z = PInf THEN SC
    ELSE IF z > 7 * SC THEN SC
    ELSE IF z < -7 * SC THEN 0
    ELSE IF z >= 0 THEN PhiPos(z)
    ELSE SC - PhiPos(-z)

(***************************************************************************)
(* numpy arrays.  A 1-D array is a sequence; a 2-D array of shape (r, c)   *)
(* is [r, c, a] with a over (1..r) \X (1..c), so that shapes with a zero   *)
(* dimension, (0, 0), (n, 0) and (0, n), stay distinct.                    *)
(***************************************************************************)
\* f itself; comparing it makes TLC tabulate the function once instead of
\* evaluating its body at every application.
Eval(f) == IF f = f THEN f ELSE f

Mat(rows, cols, f) == [r |-> rows, c |-> cols, a |-> Eval(f)]

RECURSIVE SumTo(_, _)
SumTo(f, k) == IF k = 0 THEN 0 ELSE FAdd(SumTo(f, k - 1), f[k])

\* A @ B for 2-D A, B: an empty inner dimension gives a matrix of zeros
MatMul(A, B) ==
    Mat(A.r, B.c, [p \in 1..A.r, q \in 1..B.c |->
        SumTo([k \in 1..A.c |-> FMul(A.a[<<p, k>>], B.a[<<k, q>>])], A.c)])

\* A @ v for a 2-D A and a 1-D v: a 1-D result of length A.r
MatVec(A, v) ==
    Eval([p \in 1..A.r |-> SumTo([k \in 1..A.c |-> FMul(A.a[<<p, k>>], v[k])], A.c)])

MatAdd(A, B) ==
    Mat(A.r, A.c, [p \in 1..A.r, q \in 1..A.c |-> FAdd(A.a[<<p, q>>], B.a[<<p, q>>])])

MatSub(A, B) ==
    Mat(A.r, A.c, [p \in 1..A.r, q \in 1..A.c |-> FSub(A.a[<<p, q>>], B.a[<<p, q>>])])

MatScale(s, A) ==
    Mat(A.r, A.c, [p \in 1..A.r, q \in 1..A.c |-> FMul(s, A.a[<<p, q>>])])

np_eye(m) == Mat(m, m, [p \in 1..m, q \in 1..m |-> IF p = q THEN SC ELSE 0])

np_diag(A) == [p \in 1..A.r |-> A.a[<<p, p>>]]

RECURSIVE MaxTo(_, _)
MaxTo(v, k) ==
    IF k = 1 THEN v[1]
    ELSE LET m == MaxTo(v, k - 1) IN IF v[k] > m THEN v[k] ELSE m

\* np.max of a non-empty 1-D array of finite values
np_max(v) == MaxTo(v, Len(v))

\* Gauss-Jordan elimination of the augmented matrix [A | I] from column k on;
\* a zero pivot is LAPACK's "Singular matrix".
RECURSIVE GaussJordan(_, _, _)
GaussJordan(M, m, k) ==
    IF k > m THEN [ok |-> TRUE, a |-> M]
    ELSE IF M[<<k, k>>] = 0 THEN [ok |-> FALSE, a |-> M]
    ELSE LET piv == M[<<k, k>>]
             row == Eval([q \in 1..(2 * m) |-> RDiv(M[<<k, q>>] * SC, piv)])
             R   == Eval([ij \in DOMAIN M |->
                        IF ij[1] = k THEN row[ij[2]]
                        ELSE M[ij] - RDiv(M[<<ij[1], k>>] * row[ij[2]], SC)])
         IN  GaussJordan(R, m, k + 1)

\* np_linalg_inv refusing an empty matrix
np_linalg_inv_nonempty(A) ==
    IF A.r = 0 THEN [ok |-> FALSE, m |-> A]
    ELSE LET g == GaussJordan(
                    [ij \in (1..A.r) \X (1..(2 * A.r)) |->
                        IF ij[2] <= A.r THEN A.a[ij]
                        ELSE IF ij[2] - A.r = ij[1] THEN SC ELSE 0], A.r, 1)
         IN  [ok |-> g.ok, m |-> Mat(A.r, A.r, [p \in 1..A.r, q \in 1..A.r |-> g.a[<<p, q + A.r>>]])]

\* np.linalg.inv: the inverse, or LinAlgError for a singular matrix; the
\* inverse of the empty (0, 0) matrix is the empty (0, 0) matrix.
np_linalg_inv(A) ==
    LET m   == A.r
        aug == Eval([ij \in (1..m) \X (1..(2 * m)) |->
                   IF ij[2] <= m THEN A.a[ij]
                   ELSE IF ij[2] - m = ij[1] THEN SC ELSE 0])
        g   == GaussJordan(aug, m, 1)
    IN  IF g.ok
        THEN [ok |-> TRUE, m |-> Mat(m, m, [p \in 1..m, q \in 1..m |-> g.a[<<p, q + m>>]])]
        ELSE [ok |-> FALSE, m |-> A]

\* np.linspace(lo, hi, num)
np_linspace(lo, hi, num) ==
    [k \in 1..num |-> IF num = 1 THEN lo ELSE lo + RDiv((k - 1) * (hi - lo), num - 1)]

RECURSIVE ArgmaxFrom(_, _, _)
ArgmaxFrom(v, k, best) ==
    IF k > Len(v) THEN best
    ELSE ArgmaxFrom(v, k + 1, IF v[k] > v[best] THEN k ELSE best)

RECURSIVE ArgmaxLastFrom(_, _, _)
ArgmaxLastFrom(v, k, best) ==
    IF k > Len(v) THEN best
    ELSE ArgmaxLastFrom(v, k + 1, IF v[k] >= v[best] THEN k ELSE best)

\* np_argmax returning the last index of the largest value
np_argmax_last(v) == ArgmaxLastFrom(v, 2, 1)

\* np.argmax of a non-empty array of finite values: the first index of the
\* largest value
np_argmax(v) == ArgmaxFrom(v, 2, 1)

\* np_append with the value put first
np_append_front(arr, value) == <<value>> \o arr

\* np.append(arr, value): a new array, arr followed by value
np_append(arr, value) == Append(arr, value)

(***************************************************************************)
(* The program's functions                                                 *)
(***************************************************************************)
\* rbf_kernel(x1, x2, sigma): shape (len(x1), len(x2)),
\* rbf[p][q] = exp(-(x2[q] - x1[p])**2 / (2 * sigma**2)).  No argument is
\* checked: sigma = 0 divides by zero.
rbf_kernel(x1, x2, sigma) ==
    Mat(Len(x1), Len(x2), [p \in 1..Len(x1), q \in 1..Len(x2) |->
        np_exp(FDiv(-(RDiv((x2[q] - x1[p]) * (x2[q] - x1[p]), SC)),
                    2 * RDiv(sigma * sigma, SC)))])

\* fitted_gaus(X, prev_x, prev_y, noise): [status, mean, cov]; the only
\* exception is np.linalg.inv's.  No argument is checked.
fitted_gaus(Xq, prev_x, prev_y, noise) ==
    LET sigma_bb == MatAdd(rbf_kernel(prev_x, prev_x, SC),
                           MatScale(RDiv(noise * noise, SC), np_eye(Len(prev_x))))
        sigma_aa == rbf_kernel(Xq, Xq, SC)
        sigma_ba == rbf_kernel(prev_x, Xq, SC)
        sigma_ab == rbf_kernel(Xq, prev_x, SC)
        inv      == np_linalg_inv(sigma_bb)
        sigma_bb_inv == inv.m
    IN  IF ~inv.ok THEN [status |-> "LinAlgError"]
        ELSE [status |-> "ok",
              mean   |-> MatVec(MatMul(sigma_ab, sigma_bb_inv), prev_y),
              cov    |-> MatSub(sigma_aa,
                                MatMul(MatMul(sigma_ab, sigma_bb_inv), sigma_ba))]

VecSqrt(v) == Eval([p \in DOMAIN v |-> np_sqrt(v[p])])

\* exp_imp(X, prev_x, prev_y, noise, epcilon): Z = imp / sds is not guarded
exp_imp(Xq, prev_x, prev_y, noise, epcilon) ==
    LET g  == fitted_gaus(Xq, prev_x, prev_y, noise)
        pg == fitted_gaus(prev_x, prev_x, prev_y, noise)
    IN  IF g.status # "ok" THEN [status |-> g.status]
        ELSE IF Len(prev_x) = 0 THEN [status |-> "ValueError"]
        ELSE LET means     == g.mean
                 sds       == VecSqrt(np_diag(g.cov))
                 best_mean == np_max(pg.mean)
                 imp == [p \in DOMAIN means |-> means[p] - best_mean - epcilon]
                 Z   == [p \in DOMAIN means |-> FDiv(imp[p], sds[p])]
             IN  [status |-> "ok",
                  value  |-> [p \in DOMAIN means |->
                                 FAdd(FMul(imp[p], norm_cdf(Z[p])),
                                      FMul(sds[p], norm_pdf(Z[p])))]]

\* (means - best_mean - epsilon) / (sds + 1e-9).  1e-9 is below the
\* resolution 1/SC: it matters only for sds = 0, where a non-zero numerator
\* (at least 1/SC) gives |Z| >= 1e6, beyond the range in which the normal cdf
\* differs from 0 or 1, and a zero numerator gives 0.
DivPlusTiny(num, sd) ==
    IF IsNaN(sd) THEN NaN
    ELSE IF sd = 0 THEN (IF num = 0 THEN 0 ELSE IF num > 0 THEN SC * SC * SC ELSE -(SC * SC * SC))
    ELSE FDiv(num, sd)

\* prob_imp(X, prev_x, prev_y, noise, epsilon)
prob_imp(Xq, prev_x, prev_y, noise, epsilon) ==
    LET g  == fitted_gaus(Xq, prev_x, prev_y, noise)
        pg == fitted_gaus(prev_x, prev_x, prev_y, noise)
    IN  IF g.status # "ok" THEN [status |-> g.status]
        ELSE IF Len(prev_x) = 0 THEN [status |-> "ValueError"]
        ELSE LET means     == g.mean
                 sds       == VecSqrt(np_diag(g.cov))
                 best_mean == np_max(pg.mean)
                 Z == [p \in DOMAIN means |->
                          DivPlusTiny(means[p] - best_mean - epsilon, sds[p])]
             IN  [status |-> "ok",
                  value  |-> [p \in DOMAIN means |-> norm_cdf(Z[p])]]

\* upper_conf_bound(X, prev_x, prev_y, noise, kappa)
upper_conf_bound(Xq, prev_x, prev_y, noise, kappa) ==
    LET g == fitted_gaus(Xq, prev_x, prev_y, noise)
    IN  IF g.status # "ok" THEN [status |-> g.status]
        ELSE LET means == g.mean
                 sds   == VecSqrt(np_diag(g.cov))
             IN  [status |-> "ok",
                  value  |-> [p \in DOMAIN means |->
                                 FAdd(means[p], FMul(kappa, sds[p]))]]

(***************************************************************************)
(* The optimization loops (lines 251-292, 333-374, 403-444).  The three    *)
(* blocks are the same statements around exp_imp, prob_imp and             *)
(* upper_conf_bound; they run one after the other.                         *)
(***************************************************************************)
\* n, "#iterations" (20 in the program)
n == 3

\* the size of the candidate grid xs = np.linspace(*bounds, 100)
GridSize == 3

\* the size of show_plot's grid, np.linspace(*bounds, 100)
PlotPoints == 2

bounds == <<0, 10 * SC>>

noise == SC \div 10

\* xs = np.linspace(*bounds, 100), recomputed by every iteration
xs == np_linspace(bounds[1], bounds[2], GridSize)

\* np.random.uniform(*bounds, 1) after np.random.seed(5) draws 2.2199...; the
\* model also lets the draw fall on a grid point.
Seeds == {2220, 5 * SC}

\* What objective_function returns: sin, ** and the normal draw are outside
\* integer arithmetic, so a sample is any of these values.
YVals == {0, 2 * SC}

\* X and Y as lines 167 and 178 leave them (np.random.seed(42))
X0 == <<3745, 9507, 7320>>

\* A score is a float64 that exp, the normal cdf and pdf and a matrix inverse
\* produce; Scoring draws the vector from all vectors over ScoreVals.  The
\* loops pass noise = .1, which keeps the posterior variance of every
\* candidate positive, so that no score is nan.
ScoreVals == {0, SC}

ScoreVectors == [1..GridSize -> ScoreVals]

Kinds == <<"EI", "PI", "UCB">>

KindIndex(k) == CHOOSE j \in 1..3 : Kinds[j] = k

Init ==
    /\ kind = "EI"
    /\ pc = "seed"
    /\ i = -1
    /\ X = X0
    /\ Y \in [1..3 -> YVals]
    /\ probas = <<>>
    /\ new_x = "None"
    /\ new_y = "None"
    /\ snap = <<X0, Y>>
    /\ calls = <<>>
    /\ iter_calls = 0
    /\ reported = "None"
    /\ fn = "none"
    /\ args = <<>>
    /\ ret = <<>>

\* 251-257: X = np.random.uniform(*bounds, 1); Y = [objective_function(x, noise)
\* for x in X].  i is the position of the range iterator: the Python i from the
\* first iteration on.
Seed ==
    /\ pc = "seed"
    /\ \E s \in Seeds, y \in YVals :
          /\ X' = <<s>>
          /\ Y' = <<y>>
    /\ i' = -1
    /\ calls' = <<>>
    /\ iter_calls' = 0
    /\ pc' = "for"
    /\ UNCHANGED <<kind, probas, new_x, new_y, snap, reported, fnVars>>

\* 259-272: the iterations i = 0..3 only draw a frame; save_plot calls
\* show_plot, which evaluates objective_function(x, 0) on its own grid.
PlotOnly ==
    /\ pc = "for"
    /\ i + 1 < n + 3
    /\ i + 1 <= 3
    /\ i' = i + 1
    /\ iter_calls' = PlotPoints
    /\ UNCHANGED <<kind, pc, X, Y, probas, new_x, new_y, snap, calls, reported, fnVars>>

\* 259-272: an iteration i >= 4 runs the body
EnterBody ==
    /\ pc = "for"
    /\ i + 1 < n + 3
    /\ i + 1 > 3
    /\ i' = i + 1
    /\ iter_calls' = 0
    /\ snap' = <<X, Y>>
    /\ pc' = "score"
    /\ UNCHANGED <<kind, X, Y, probas, new_x, new_y, calls, reported, fnVars>>

\* 259: range(n + 3) is exhausted
ExitLoop ==
    /\ pc = "for"
    /\ ~(i + 1 < n + 3)
    /\ pc' = "final"
    /\ UNCHANGED <<kind, i, X, Y, probas, new_x, new_y, snap, calls, iter_calls,
                   reported, fnVars>>

\* 273-274: probas = exp_imp(xs, X, Y, noise, epcilon) (prob_imp,
\* upper_conf_bound); X and Y are read only.
Score ==
    /\ pc = "score"
    /\ probas' \in ScoreVectors
    /\ pc' = "argmax"
    /\ UNCHANGED <<kind, i, X, Y, new_x, new_y, snap, calls, iter_calls, reported,
                   fnVars>>

\* 275-276: new_x = xs[np.argmax(probas)]
Argmax ==
    /\ pc = "argmax"
    /\ new_x' = xs[np_argmax(probas)]
    /\ pc' = "append_x"
    /\ UNCHANGED <<kind, i, X, Y, probas, new_y, snap, calls, iter_calls, reported,
                   fnVars>>

\* 277: X = np.append(X, new_x)
AppendX ==
    /\ pc = "append_x"
    /\ X' = np_append(X, new_x)
    /\ pc' = "oracle"
    /\ UNCHANGED <<kind, i, Y, probas, new_x, new_y, snap, calls, iter_calls,
                   reported, fnVars>>

\* OracleReturn with the oracle asked at the first grid point
OracleReturn_first_point ==
    /\ pc = "oracle"
    /\ new_y' \in YVals
    /\ calls' = Append(calls, xs[1])
    /\ iter_calls' = iter_calls + 1
    /\ pc' = "append_y"
    /\ UNCHANGED <<kind, i, X, Y, probas, new_x, snap, reported, fnVars>>

\* 278: new_y = objective_function(new_x, noise) returns
OracleReturn ==
    /\ pc = "oracle"
    /\ new_y' \in YVals
    /\ calls' = Append(calls, new_x)
    /\ iter_calls' = iter_calls + 1
    /\ pc' = "append_y"
    /\ UNCHANGED <<kind, i, X, Y, probas, new_x, snap, reported, fnVars>>

\* 278: the call raises or is interrupted; nothing at module level catches
\* it, the script ends with its variables as they are.
OracleFail ==
    /\ pc = "oracle"
    /\ pc' = "aborted"
    /\ UNCHANGED <<kind, i, X, Y, probas, new_x, new_y, snap, calls, iter_calls,
                   reported, fnVars>>

\* 279: Y = np.append(Y, new_y)
AppendY ==
    /\ pc = "append_y"
    /\ Y' = np_append(Y, new_y)
    /\ pc' = "frame"
    /\ UNCHANGED <<kind, i, X, probas, new_x, new_y, snap, calls, iter_calls,
                   reported, fnVars>>

\* 280: save_plot(X, Y, ...) -> show_plot: ys = [objective_function(x, 0) for
\* x in xs] on show_plot's grid; X and Y are read only.
Frame ==
    /\ pc = "frame"
    /\ iter_calls' = iter_calls + PlotPoints
    /\ pc' = "for"
    /\ UNCHANGED <<kind, i, X, Y, probas, new_x, new_y, snap, calls, reported, fnVars>>

\* 282-292: the last frame, ffmpeg, and
\* print("The objective function is maximized at: ", new_x)
Final ==
    /\ pc = "final"
    /\ reported' = new_x
    /\ pc' = "done"
    /\ UNCHANGED <<kind, i, X, Y, probas, new_x, new_y, snap, calls, iter_calls,
                   fnVars>>

\* the next block starts (333, 403); every variable keeps its value until the
\* block assigns it
NextBlock ==
    /\ pc = "done"
    /\ kind # "UCB"
    /\ kind' = Kinds[KindIndex(kind) + 1]
    /\ pc' = "seed"
    /\ UNCHANGED <<i, X, Y, probas, new_x, new_y, snap, calls, iter_calls, reported,
                   fnVars>>

Next ==
    \/ Seed
    \/ PlotOnly
    \/ EnterBody
    \/ ExitLoop
    \/ Score
    \/ Argmax
    \/ AppendX
    \/ OracleReturn
    \/ OracleFail
    \/ AppendY
    \/ Frame
    \/ Final
    \/ NextBlock

Spec == Init /\ [][Next]_vars

(***************************************************************************)
(* SpecFn: the functions on their own.  Init draws a function and its      *)
(* arguments; the function's action applies it and records what it         *)
(* returned or raised.                                                     *)
(***************************************************************************)
\* the longest array of query points
MaxQuery == 2

\* the most observations (prev_x, prev_y)
MaxObs == 1

ArraysOf(S, lo, hi) == UNION {[1..m -> S] : m \in lo..hi}

FnPoints == {0, 5 * SC, 6 * SC}

FnYs == {0, SC \div 5}

\* noise = 0 is the program's own argument at lines 172-174
FnNoises == {-(SC \div 10), 0, SC \div 10}

FnSigmas == {-SC, 0, SC}

\* epcilon / kappa
FnParams == {0, SC \div 10}

Queries == ArraysOf(FnPoints, 0, MaxQuery)

\* observations: prev_x and prev_y of one length
Observations ==
    UNION {[prev_x : [1..m -> FnPoints], prev_y : [1..m -> FnYs]] : m \in 0..MaxObs}

FnArgs(f) ==
    IF f = "rbf_kernel"
    THEN [x1 : Queries, x2 : ArraysOf(FnPoints, 0, 1), sigma : FnSigmas]
    ELSE IF f = "np_linspace"
    THEN [lo : {0, 10 * SC}, hi : {0, 10 * SC}, num : 1..GridSize]
    ELSE IF f = "fitted_gaus"
    THEN [X : Queries, obs : Observations, noise : FnNoises]
    ELSE [X : Queries, obs : Observations, noise : FnNoises, param : FnParams]

FnNames == {"rbf_kernel", "np_linspace", "fitted_gaus", "exp_imp", "prob_imp",
            "upper_conf_bound"}

InitFn ==
    /\ fn \in FnNames
    /\ args \in FnArgs(fn)
    /\ ret = [status |-> "pending"]
    /\ kind = "EI"
    /\ pc = "idle"
    /\ i = -1
    /\ X = X0
    /\ Y = <<0, 0, 0>>
    /\ probas = <<>>
    /\ new_x = "None"
    /\ new_y = "None"
    /\ snap = <<X0, <<0, 0, 0>>>>
    /\ calls = <<>>
    /\ iter_calls = 0
    /\ reported = "None"

Pending(f) == fn = f /\ ret.status = "pending"

Call_rbf_kernel ==
    /\ Pending("rbf_kernel")
    /\ ret' = [status |-> "ok", value |-> rbf_kernel(args.x1, args.x2, args.sigma)]
    /\ UNCHANGED <<fn, args, loopVars>>

Call_np_linspace ==
    /\ Pending("np_linspace")
    /\ ret' = [status |-> "ok", value |-> np_linspace(args.lo, args.hi, args.num)]
    /\ UNCHANGED <<fn, args, loopVars>>

Call_fitted_gaus ==
    /\ Pending("fitted_gaus")
    /\ ret' = fitted_gaus(args.X, args.obs.prev_x, args.obs.prev_y, args.noise)
    /\ UNCHANGED <<fn, args, loopVars>>

Call_exp_imp ==
    /\ Pending("exp_imp")
    /\ ret' = exp_imp(args.X, args.obs.prev_x, args.obs.prev_y, args.noise, args.param)
    /\ UNCHANGED <<fn, args, loopVars>>

Call_prob_imp ==
    /\ Pending("prob_imp")
    /\ ret' = prob_imp(args.X, args.obs.prev_x, args.obs.prev_y, args.noise, args.param)
    /\ UNCHANGED <<fn, args, loopVars>>

Call_upper_conf_bound ==
    /\ Pending("upper_conf_bound")
    /\ ret' = upper_conf_bound(args.X, args.obs.prev_x, args.obs.prev_y, args.noise,
                               args.param)
    /\ UNCHANGED <<fn, args, loopVars>>

NextFn ==
    \/ Call_rbf_kernel
    \/ Call_np_linspace
    \/ Call_fitted_gaus
    \/ Call_exp_imp
    \/ Call_prob_imp
    \/ Call_upper_conf_bound

SpecFn == InitFn /\ [][NextFn]_vars

(***************************************************************************)
(* Properties of the loops (Spec)                                          *)
(***************************************************************************)
InSampling == pc \in {"append_x", "oracle", "append_y", "frame"}

\* C1: inside a loop X and Y change only by line 277 appending new_x to the
\* end of X and line 279 appending new_y to the end of Y (every stored value
\* keeps its place); Scoring leaves both unchanged; between iterations, after
\* k = i - 3 completed sampling iterations, both hold 1 + k values.
C1_AppendOnly ==
    [][ /\ \/ X' = X /\ Y' = Y
           \/ pc = "seed" /\ Len(X') = 1 /\ Len(Y') = 1
           \/ pc = "append_x" /\ X' = Append(X, new_x) /\ Y' = Y
           \/ pc = "append_y" /\ Y' = Append(Y, new_y) /\ X' = X
                /\ Len(X') = Len(Y')
        /\ pc = "score" => X' = X /\ Y' = Y
        /\ (pc' = "for" /\ i' >= 3) =>
               /\ Len(X') = 1 + (i' - 3)
               /\ Len(Y') = 1 + (i' - 3)
      ]_vars

\* two sampling iterations are complete: the seed and two appended pairs
C1_Witness == pc = "for" /\ i = 5 /\ Len(X) = 3 /\ Len(Y) = 3 /\ X[2] # X[3]

\* C2: X and Y hold equally many values in every state
C2_EqualLengths == Len(X) = Len(Y)

\* C3: when the oracle call of a Sampling step fails, X and Y are what they
\* were when the iteration began
C3_NoPartialAppend == pc = "aborted" => X = snap[1] /\ Y = snap[2]

\* C4: in a Sampling step new_x is the grid point of the smallest index whose
\* score is the largest of the grid, and it lies within the bounds
C4_FirstArgmax ==
    InSampling =>
        /\ \E k \in 1..GridSize :
              /\ new_x = xs[k]
              /\ \A j \in 1..GridSize : probas[j] <= probas[k]
              /\ \A j \in 1..(k - 1) : probas[j] < probas[k]
        /\ bounds[1] <= new_x
        /\ new_x <= bounds[2]

\* the largest score is tied and is not at the first grid point
C4_Witness ==
    /\ pc = "append_x"
    /\ \E k \in 2..GridSize, l \in 1..GridSize :
          /\ k < l
          /\ new_x = xs[k]
          /\ probas[k] = probas[l]
          /\ probas[1] < probas[k]

\* The sampling call of an iteration comes after its Scoring and before the
\* next one, with that iteration's new_x, and Scoring sees every pair sampled
\* by the earlier iterations.
SamplingCallOrder ==
    /\ pc \in {"score", "argmax", "append_x", "oracle"} =>
          /\ Len(calls) = i - 4
          /\ iter_calls = 0
    /\ pc \in {"score", "argmax"} =>
          /\ Len(X) = i - 3
          /\ Len(Y) = i - 3
          /\ \A j \in 1..Len(calls) : X[j + 1] = calls[j]
    /\ pc \in {"append_y", "frame"} =>
          /\ Len(calls) = i - 3
          /\ calls[Len(calls)] = new_x
          /\ iter_calls = 1

\* C5 (as stated): the sampling call is ordered as above and a completed
\* sampling iteration has called objective_function exactly once
C5_ExactlyOneCall ==
    /\ SamplingCallOrder
    /\ (pc = "for" /\ i >= 4) => iter_calls = 1

\* C5 (amended): the sampling call is ordered as above; a completed sampling
\* iteration has called objective_function once for the sample and, in
\* save_plot -> show_plot, once for each point of the plot grid
C5_OneSamplingCall ==
    /\ SamplingCallOrder
    /\ (pc = "for" /\ i >= 4) => iter_calls = 1 + PlotPoints

\* the second iteration scores with the first iteration's pair stored
C5_Witness ==
    /\ pc = "score"
    /\ i = 5
    /\ Len(calls) = 1
    /\ X[2] = calls[1]
    /\ Len(Y) = 2

BestByY(x) ==
    \E j \in 1..Len(X) : X[j] = x /\ \A l \in 1..Len(Y) : Y[l] <= Y[j]

BestByPosteriorMean(x) ==
    LET pm == fitted_gaus(X, X, Y, noise).mean
    IN  \E j \in 1..Len(X) : X[j] = x /\ \A l \in 1..Len(X) : pm[l] <= pm[j]

\* C6: the point the finished loop reports is an observed x of the largest
\* observed y, or of the largest posterior mean at the observed x
C6_ReportsBest ==
    pc = "done" => BestByY(reported) \/ BestByPosteriorMean(reported)

\* C10: the finished loop has run n sampling iterations: the seed pair and n
\* sampled pairs are stored
C10_BudgetN ==
    pc \in {"final", "done"} =>
        /\ Len(X) = 1 + n
        /\ Len(Y) = 1 + n
        /\ Len(calls) = n

(***************************************************************************)
(* Properties of the functions (SpecFn)                                    *)
(***************************************************************************)
\* the posterior standard deviations exp_imp and prob_imp compute (sds)
PosteriorSds ==
    VecSqrt(np_diag(fitted_gaus(args.X, args.obs.prev_x, args.obs.prev_y,
                                args.noise).cov))

\* C7: exp_imp and prob_imp score a candidate of posterior standard deviation
\* 0 with exactly 0 (so never with nan)
C7_ZeroAtCertainPoint ==
    (fn \in {"exp_imp", "prob_imp"} /\ ret.status = "ok") =>
        \A p \in DOMAIN ret.value : PosteriorSds[p] = 0 => ret.value[p] = 0

InvalidParameter ==
    \/ fn = "rbf_kernel" /\ args.sigma <= 0
    \/ fn = "fitted_gaus" /\ args.noise <= 0
    \/ fn = "np_linspace" /\ args.lo >= args.hi

\* C8: a call with an invalid parameter returns no result: it is rejected with
\* InvalidParameter
C8_RejectsInvalid ==
    (fn # "none" /\ InvalidParameter) => ret.status \in {"pending", "InvalidParameter"}

\* C9: fitted_gaus with no observations does not fail; its mean is zero at
\* every query point and its covariance is rbf_kernel(X, X)
C9_PriorWithoutObservations ==
    (fn = "fitted_gaus" /\ ret.status # "pending" /\ args.obs.prev_x = <<>>) =>
        /\ ret.status = "ok"
        /\ ret.mean = [p \in 1..Len(args.X) |-> 0]
        /\ ret.cov = rbf_kernel(args.X, args.X, SC)

\* fitted_gaus returned for two distinct query points and no observation
C9_Witness ==
    /\ fn = "fitted_gaus"
    /\ ret.status = "ok"
    /\ args.obs.prev_x = <<>>
    /\ Len(args.X) = 2
    /\ args.X[1] # args.X[2]
    /\ ret.cov.a[<<1, 2>>] # ret.cov.a[<<1, 1>>]

====
